---- MODULE Spec2Model ----
(***************************************************************************)
(* rapid-api-kit: the CRUD request engine of createRouter (TypeScript      *)
(* router, with the attachment lifecycle of fileUpload), its list query    *)
(* translation, and the legacy JavaScript router's filter rule.            *)
(*                                                                         *)
(* The specifications share the variables:                                 *)
(*   Spec       create / replace / patch / delete requests on one resource *)
(*              with two file fields, a document store and a blob store;   *)
(*              one action per external call of a handler.                 *)
(*   SpecCreate one create request under every file-field configuration.   *)
(*   SpecList   list requests: the filter loop, then paging and response.  *)
(***************************************************************************)
EXTENDS Integers, Sequences, FiniteSets, TLC

\* ------------------------------------------------------------------ bounds
\* Requests started in one behaviour of Spec.
MaxRequests == 3
\* Blob URLs the blob store issues in one behaviour of Spec.
MaxBlobs == 3

\* ------------------------------------------------------- program constants
\* 1024 * 1024: bytes per MB in validateFiles and in the multer limit.
MB == 1024 * 1024
\* Fallback of the multer limit for a file field without maxSize.
DefaultMaxSizeMB == 10

\* An optional number that is not set (maxSize?: number).
Undefined == -1
\* The value of a document field or body key that is absent.
None == 0
NoEmail == ""

Max(a, b) == IF a >= b THEN a ELSE b
Min(a, b) == IF a <= b THEN a ELSE b

RECURSIVE MaxOfSeq(_)
MaxOfSeq(s) == IF s = <<>> THEN 0 ELSE Max(Head(s), MaxOfSeq(Tail(s)))

\* JavaScript truthiness of an optional number: undefined and 0 are falsy.
TruthyNum(n) == n # Undefined /\ n # 0

\* The concurrent request slots (handler invocations in flight).
Procs == {1, 2}

\* ---------------------------------------------------------- configuration
\* The file fields of the resource of Spec: the students example with a
\* second file field without maxSize.
FileFieldNames == {"idCard", "photo"}

\* accept rules are token sequences: <<".", "pdf">>, <<"image", "/", "*">>,
\* <<"image", "/", "png">>; mimetypes are <<type, "/", subtype>>.
AcceptDocs == << <<".", "pdf">>, <<".", "jpg">>, <<".", "png">> >>
AcceptImages == << <<"image", "/", "*">> >>

MainFileFields ==
    << [fieldName |-> "idCard", required |-> FALSE, maxSize |-> 5, accept |-> AcceptDocs],
       [fieldName |-> "photo", required |-> FALSE, maxSize |-> Undefined, accept |-> <<>>] >>

VARIABLES
    fileFields,   \* createRouter options.fileFields
    blobToken,    \* createRouter options.blobToken is set
    docs,         \* the collection: live identifier -> document
    blobs,        \* the blob store: URLs that exist
    nextId,       \* next ObjectId to allocate
    nextUrl,      \* next URL the blob store issues
    started,      \* requests started so far
    concurrency,  \* handler invocations that may be in flight together
    req,          \* per slot: the handler invocation in progress
    deleted,      \* identifiers whose document a DELETE removed
    served,       \* the requests answered so far, where they are recorded
    variant,      \* which build of createRouter is mounted: "ts" or "js"
    filterBy,     \* createRouter options.filterBy
    searchBy,     \* createRouter options.searchBy
    collection,   \* the listed resource's documents, in the requested sort order
    lreq,         \* the GET / invocation in progress
    boot          \* the rapidAPI call: its configuration and how far it got

mutVars == <<fileFields, blobToken, docs, blobs, nextId, nextUrl, started, concurrency, req, deleted, served>>
listVars == <<variant, filterBy, searchBy, collection, lreq>>
vars == <<mutVars, listVars, boot>>

\* A router that takes the file path whatever its options.
hasFiles_Always == TRUE

\* createRouter: hasFiles
hasFiles == Len(fileFields) > 0 /\ blobToken

\* createRouter: globalMaxSize, in bytes
globalMaxSize ==
    IF hasFiles
    THEN Max(DefaultMaxSizeMB,
             MaxOfSeq([i \in 1..Len(fileFields) |->
                 IF fileFields[i].maxSize = Undefined THEN DefaultMaxSizeMB
                 ELSE fileFields[i].maxSize])) * MB
    ELSE 0

\* ------------------------------------------------------ fileUpload helpers
NoFile == [size |-> 0, mimetype |-> <<>>, ext |-> <<>>]

\* An uploaded-files map is a function from the fields that carry a file.
Uploaded(files, f) == IF f \in DOMAIN files THEN files[f] ELSE NoFile
HasUpload(files, f) == f \in DOMAIN files

\* isFileAccepted: some rule matches by extension, by type prefix or exactly.
RuleMatches(file, rule) ==
    IF rule[1] = "." THEN file.ext = rule
    ELSE IF Len(rule) = 3 /\ rule[2] = "/" /\ rule[3] = "*"
         THEN Len(file.mimetype) = 3 /\ file.mimetype[1] = rule[1] /\ file.mimetype[2] = "/"
         ELSE file.mimetype = rule

isFileAccepted(file, accept) ==
    \E i \in 1..Len(accept) : RuleMatches(file, accept[i])

\* validateFiles, field by field: the messages field ff contributes.
FieldErrors(files, ff, isCreate) ==
    LET up == HasUpload(files, ff.fieldName)
        file == Uploaded(files, ff.fieldName)
    IN  IF ff.required /\ isCreate /\ ~up
        THEN << [rule |-> "required", field |-> ff.fieldName] >>
        ELSE IF ~up THEN <<>>
        ELSE (IF TruthyNum(ff.maxSize) /\ file.size > ff.maxSize * MB
              THEN << [rule |-> "size", field |-> ff.fieldName] >> ELSE <<>>)
             \o
             (IF ff.accept # <<>> /\ ~isFileAccepted(file, ff.accept)
              THEN << [rule |-> "type", field |-> ff.fieldName] >> ELSE <<>>)

RECURSIVE validateFilesFrom(_, _, _, _)
validateFilesFrom(files, ffs, isCreate, i) ==
    IF i > Len(ffs) THEN <<>>
    ELSE FieldErrors(files, ffs[i], isCreate) \o validateFilesFrom(files, ffs, isCreate, i + 1)

validateFiles(files, ffs, isCreate) == validateFilesFrom(files, ffs, isCreate, 1)

\* An extraction that stops after the first file field.
extractBlobUrls_First(doc, ffs) ==
    IF ffs # <<>> /\ doc.files[ffs[1].fieldName] > 0 THEN {doc.files[ffs[1].fieldName]} ELSE {}

\* extractBlobUrls: the file-field values of a document that are URLs.
\* URLs are the positive integers the blob store issued; None is no value.
IsUrl(v) == v > 0
extractBlobUrls(doc, ffs) ==
    {doc.files[ffs[i].fieldName] : i \in {j \in 1..Len(ffs) : IsUrl(doc.files[ffs[j].fieldName])}}

\* uploadFiles: the next file field, in fileFields order, that carries a file
\* and has no URL yet (0 when the loop is over).
NextUpload(files, urls, ffs) ==
    LET todo == {i \in 1..Len(ffs) : ffs[i].fieldName \in files /\ ffs[i].fieldName \notin DOMAIN urls}
    IN  IF todo = {} THEN 0 ELSE CHOOSE i \in todo : \A j \in todo : i <= j

EmptyMap == [x \in {} |-> None]
Range(f) == {f[x] : x \in DOMAIN f}


\* ------------------------------------------------- errors and responses
\* An error as the handlers inspect it: name, kind, code, keyPattern (the
\* conflicting field), errors (per-path validation entries), status.
MkErr(name, kind, code, key, errors) ==
    [name |-> name, kind |-> kind, code |-> code, keyPattern |-> key,
     errors |-> errors, status |-> Undefined]

NoErr == MkErr("", "", 0, "", <<>>)
\* Mongoose ValidationError: one entry per offending path.
ValidationErr(paths) ==
    MkErr("ValidationError", "", 0, "",
          [i \in 1..Len(paths) |-> [path |-> paths[i], message |-> "invalid"]])
\* MongoDB duplicate-key error of a unique index.
DuplicateErr(field) == MkErr("MongoServerError", "", 11000, field, <<>>)
\* Mongoose CastError of a malformed identifier.
CastErr == MkErr("CastError", "ObjectId", 0, "", <<>>)
\* Any other failure of the storage engine or of the blob store.
OtherErr == MkErr("Error", "", 0, "", <<>>)
\* multer's LIMIT_FILE_SIZE error.
MulterErr == MkErr("MulterError", "", 0, "", <<>>)
\* Marker of a null result of findByIdAndUpdate, kept while blobs roll back.
NotFoundMark == MkErr("NotFound", "", 0, "", <<>>)

\* A response: res.status(..).json({success, error, details}); field is the
\* field an error message names; via is who sent it.
NoResp ==
    [status |-> 0, success |-> FALSE, error |-> "", field |-> "", details |-> <<>>, via |-> ""]
Resp(status, error, field, details, via) ==
    [status |-> status, success |-> FALSE, error |-> error, field |-> field,
     details |-> details, via |-> via]

\* middleware.ts errorHandler
errorHandler(err) ==
    IF err.name = "CastError" THEN Resp(400, "Invalid", "", <<>>, "errorHandler")
    ELSE Resp(IF TruthyNum(err.status) THEN err.status ELSE 500,
              "Internal server error", "", <<>>, "errorHandler")

\* A details list that reports only the first offending path.
ValidationDetails_FirstOnly(err) ==
    [i \in 1..Min(1, Len(err.errors)) |->
        [field |-> err.errors[i].path, message |-> err.errors[i].message]]

\* The details list of a validation error: Object.values(errors).map(...).
ValidationDetails(err) ==
    [i \in 1..Len(err.errors) |-> [field |-> err.errors[i].path, message |-> err.errors[i].message]]

\* postHandler: the outer catch
postCatch(err) ==
    IF err.name = "ValidationError" /\ err.errors # <<>>
    THEN Resp(400, "Validation failed", "", ValidationDetails(err), "handler")
    ELSE IF err.code = 11000 /\ err.keyPattern # ""
         THEN Resp(409, "Duplicate value for field", err.keyPattern, <<>>, "handler")
         ELSE errorHandler(err)

\* putHandler and patchHandler: the outer catch (the two are the same code)
updateCatch(err) ==
    IF err.name = "ValidationError" /\ err.errors # <<>>
    THEN Resp(400, "Validation failed", "", ValidationDetails(err), "handler")
    ELSE IF err.kind = "ObjectId"
         THEN Resp(400, "Invalid ID format", "", <<>>, "handler")
         ELSE errorHandler(err)

\* DELETE /:id: the catch
deleteCatch(err) ==
    IF err.kind = "ObjectId"
    THEN Resp(400, "Invalid ID format", "", <<>>, "handler")
    ELSE errorHandler(err)

\* GET /:id: the catch
getCatch(err) ==
    IF err.kind = "ObjectId"
    THEN Resp(400, "Invalid ID format", "", <<>>, "handler")
    ELSE errorHandler(err)

Catch(method, err) ==
    IF method = "POST" THEN postCatch(err)
    ELSE IF method = "DELETE" THEN deleteCatch(err)
    ELSE IF method = "GET" THEN getCatch(err)
    ELSE updateCatch(err)

EmptyBodyResp == Resp(400, "Request body cannot be empty", "", <<>>, "handler")
FileErrorResp(errors) == Resp(400, "File validation failed", "", errors, "handler")
\* A not-found answered as a success.
NotFoundResp_Ok == [Resp(200, "", "", <<>>, "handler") EXCEPT !.success = TRUE]

NotFoundResp == Resp(404, "not found", "", <<>>, "handler")
OkResp(status) == [Resp(status, "", "", <<>>, "handler") EXCEPT !.success = TRUE]

\* --------------------------------------------------- the storage engine
\* The students schema: email unique, age in 10..100, grade in an enum.
AgeMin == 10
AgeMax == 100
Grades == {"A", "B", "C", "D", "F"}
NoGrade == ""

\* Identifiers: ObjectIds are 1, 2, ...; MissingId is well-formed and was
\* never allocated; MalformedId does not cast to an ObjectId.
MissingId == 0
MalformedId == -1
\* A cast that lets every identifier through.
IsMalformed_Never(id) == FALSE
IsMalformed(id) == id < 0

\* The offending paths of a body, in schema order.
StorageValidate(body) ==
    (IF body.age # None /\ (body.age < AgeMin \/ body.age > AgeMax) THEN <<"age">> ELSE <<>>)
    \o (IF body.grade # NoGrade /\ body.grade \notin Grades THEN <<"grade">> ELSE <<>>)

\* The unique index on email: another live document holds the value.
EmailTaken(email, id) ==
    email # NoEmail /\ \E d \in DOMAIN docs : d # id /\ docs[d].email = email

Live(id) == id \in DOMAIN docs

\* The request bodies: email, two validated plain fields, and a text value
\* for at most one file field: the URL the client read from that field.
EmptyBody ==
    [email |-> NoEmail, age |-> None, grade |-> NoGrade, ftext |-> [f \in FileFieldNames |-> None]]
PlainValues == { <<None, NoGrade>>, <<25, NoGrade>>, <<200, NoGrade>>, <<200, "Z">> }
FileTexts(id) ==
    {[f \in FileFieldNames |-> None]} \cup
    {[f \in FileFieldNames |-> IF f = g THEN docs[id].files[g] ELSE None] :
        g \in {h \in FileFieldNames : Live(id) /\ docs[id].files[h] # None}}
Bodies(id) ==
    {[email |-> e, age |-> pv[1], grade |-> pv[2], ftext |-> t] :
        e \in {NoEmail, "e1"}, pv \in PlainValues, t \in FileTexts(id)} \ {EmptyBody}
hasBodyOf(body) == body # EmptyBody

\* Object.assign(body, uploadedUrls), then the document the engine stores.
MergedFile(body, urls, f) == IF f \in DOMAIN urls THEN urls[f] ELSE body.ftext[f]
\* Model.create(body) and findByIdAndUpdate(id, body, {overwrite: true})
ReplaceDoc(body, urls) ==
    [email |-> body.email, files |-> [f \in FileFieldNames |-> MergedFile(body, urls, f)]]
\* findByIdAndUpdate(id, {$set: body})
SetDoc(old, body, urls) ==
    [email |-> IF body.email # NoEmail THEN body.email ELSE old.email,
     files |-> [f \in FileFieldNames |->
                   IF MergedFile(body, urls, f) # None THEN MergedFile(body, urls, f)
                   ELSE old.files[f]]]

RemoveDoc(id) == [d \in DOMAIN docs \ {id} |-> docs[d]]
PutDoc(id, doc) == [d \in DOMAIN docs \cup {id} |-> IF d = id THEN doc ELSE docs[d]]


\* ------------------------------------------------------ handler invocations
\* pc is the external call the handler waits for: "findOld" (findById),
\* "upload" (put of the next file), "create", "update", "delete", "rollback"
\* (deleteBlobs of this request's uploads), "cleanup" (deleteBlobs of old
\* URLs); "done" once the response is sent.
\* emptyRequest and oversized describe the request; puts, dels, delFailed,
\* reads and writes record the calls the handler made. ownValues says that
\* the body of a create supplies its own _id and a text for every file
\* field; pathId is the documentId the handler passed to uploadFiles; sent
\* counts the responses sent for the request, by the handler or by the
\* error handler it forwarded to.
IdleReq ==
    [pc |-> "idle", method |-> "", id |-> MissingId, emptyRequest |-> FALSE, files |-> {},
     urls |-> EmptyMap, uploadedUrls |-> EmptyMap, old |-> {}, err |-> NoErr,
     puts |-> {}, dels |-> {}, delFailed |-> FALSE, reads |-> 0, writes |-> 0,
     oversized |-> FALSE, violated |-> {}, ownValues |-> FALSE, pathId |-> MissingId,
     sent |-> 0, resp |-> NoResp]

NewReq(method, id, hasBody, files, oversized, violated) ==
    [IdleReq EXCEPT !.method = method, !.id = id, !.emptyRequest = ~hasBody /\ files = {},
                    !.files = files, !.oversized = oversized, !.violated = violated]

Done(r, resp) == [r EXCEPT !.pc = "done", !.resp = resp, !.sent = @ + 1]

\* Files a client sends: a size and a type.
Pdf == [mimetype |-> <<"application", "/", "pdf">>, ext |-> <<".", "pdf">>]
Png == [mimetype |-> <<"image", "/", "png">>, ext |-> <<".", "png">>]
Exe == [mimetype |-> <<"application", "/", "x-msdownload">>, ext |-> <<".", "exe">>]
FileOf(n, k) == [size |-> n * MB, mimetype |-> k.mimetype, ext |-> k.ext]
FileSizesMB == {1, 7, 15, 25}
FileChoices == {FileOf(n, k) : n \in FileSizesMB, k \in {Pdf, Png, Exe}}
\* The files the clients of Spec send: one every field accepts, one that
\* idCard rejects (size and type).
MainFileChoices == {FileOf(1, Pdf), FileOf(7, Exe)}
UploadMaps(names, choices) == UNION {[S -> choices] : S \in SUBSET names}

\* The size limit a file field declares: maxSize, 10 MB when it is not set.
FieldMaxSizeMB(ff) == IF ff.maxSize = Undefined THEN DefaultMaxSizeMB ELSE ff.maxSize
Oversized(files, ffs) ==
    \E i \in 1..Len(ffs) :
        /\ ffs[i].fieldName \in DOMAIN files
        /\ files[ffs[i].fieldName].size > FieldMaxSizeMB(ffs[i]) * MB

\* The rules of the file fields a request breaks: required on create, size
\* over the field's limit, type outside the field's accept list.
ViolatedRules(files, ffs, isCreate) ==
    {<<ffs[i].fieldName, "required">> :
        i \in {j \in 1..Len(ffs) : ffs[j].required /\ isCreate /\ ffs[j].fieldName \notin DOMAIN files}}
    \cup {<<ffs[i].fieldName, "size">> :
        i \in {j \in 1..Len(ffs) :
                 /\ ffs[j].fieldName \in DOMAIN files
                 /\ files[ffs[j].fieldName].size > FieldMaxSizeMB(ffs[j]) * MB}}
    \cup {<<ffs[i].fieldName, "type">> :
        i \in {j \in 1..Len(ffs) :
                 /\ ffs[j].fieldName \in DOMAIN files
                 /\ ffs[j].accept # <<>>
                 /\ ~isFileAccepted(files[ffs[j].fieldName], ffs[j].accept)}}

\* Uploads still to come of the requests in flight.
PendingPuts(r) ==
    IF r.pc \in {"findOld", "upload"} THEN Cardinality(r.files \ DOMAIN r.urls) ELSE 0
RECURSIVE SumPending(_)
SumPending(S) ==
    IF S = {} THEN 0
    ELSE LET q == CHOOSE x \in S : TRUE IN PendingPuts(req[q]) + SumPending(S \ {q})

\* A handler that lets an empty request through.
IsEmptyRequest_Never(hasBody, hasUploadedFiles) == FALSE

\* postHandler / putHandler / patchHandler: !hasBody && !hasUploadedFiles
IsEmptyRequest(hasBody, hasUploadedFiles) == ~hasBody /\ ~hasUploadedFiles

\* multer, then the synchronous head of a handler up to its first await.
\* postHandler / putHandler / patchHandler: empty check, validateFiles.
HandlerHead(method, id, hasBody, files) ==
    LET names == DOMAIN files
        r == NewReq(method, id, hasBody, names, Oversized(files, fileFields),
                    IF hasFiles THEN ViolatedRules(files, fileFields, method = "POST") ELSE {})
        hasUploadedFiles == names # {}
    IN  IF method # "GET" /\ \E f \in names : files[f].size > globalMaxSize
        THEN Done(r, errorHandler(MulterErr))
        ELSE IF method = "GET" THEN [r EXCEPT !.pc = "get"]
        ELSE IF method = "DELETE" THEN [r EXCEPT !.pc = "delete"]
        ELSE IF IsEmptyRequest(hasBody, hasUploadedFiles) THEN Done(r, EmptyBodyResp)
        ELSE IF method = "POST"
             THEN IF hasFiles /\ validateFiles(files, fileFields, TRUE) # <<>>
                  THEN Done(r, FileErrorResp(validateFiles(files, fileFields, TRUE)))
                  ELSE [r EXCEPT !.pc = IF hasFiles /\ hasUploadedFiles THEN "upload" ELSE "create"]
        ELSE IF method = "PUT"
             THEN IF hasFiles /\ validateFiles(files, fileFields, FALSE) # <<>>
                  THEN Done(r, FileErrorResp(validateFiles(files, fileFields, FALSE)))
                  ELSE [r EXCEPT !.pc = IF hasFiles THEN "findOld" ELSE "update"]
        ELSE \* PATCH
             IF hasFiles /\ hasUploadedFiles /\ validateFiles(files, fileFields, FALSE) # <<>>
             THEN Done(r, FileErrorResp(validateFiles(files, fileFields, FALSE)))
             ELSE [r EXCEPT !.pc = IF hasFiles /\ hasUploadedFiles THEN "findOld" ELSE "update"]

\* multer's fields(...): the part names the route accepts.
ConfiguredNames == {fileFields[i].fieldName : i \in 1..Len(fileFields)}

Free(p) == req[p].pc = "idle"
\* No response is being sent: a finished invocation is dropped (Retire) before
\* any other handler continues.
Quiet == \A q \in Procs : req[q].pc # "done"

\* A request arrives: POST / with a fresh ObjectId, or PUT, PATCH, DELETE /:id.
\* The slots are interchangeable: the lowest free one takes the request.
StartWith(p, methods, choices, own) ==
    /\ Quiet
    /\ Free(p)
    /\ \A q \in Procs : q < p => ~Free(q)
    /\ Cardinality({q \in Procs : ~Free(q)}) < concurrency
    /\ started < MaxRequests
    /\ \E method \in methods, hasBody \in BOOLEAN, ownValues \in own,
          files \in UploadMaps(IF hasFiles THEN ConfiguredNames ELSE {}, choices),
          target \in (1..(nextId - 1)) \cup {MissingId, MalformedId} :
        LET id == IF method = "POST" THEN nextId ELSE target
            r == [HandlerHead(method, id, hasBody, files) EXCEPT !.ownValues = ownValues]
        IN  /\ method = "POST" => target = MissingId
            /\ ownValues => (method = "POST" /\ hasBody)
            /\ method \in {"GET", "DELETE"} => (~hasBody /\ files = EmptyMap)
            /\ nextUrl - 1 + SumPending(Procs \ {p}) + PendingPuts(r) <= MaxBlobs
            /\ req' = [req EXCEPT ![p] = r]
            /\ nextId' = IF method = "POST" /\ r.pc # "done" THEN nextId + 1 ELSE nextId
    /\ started' = started + 1
    /\ UNCHANGED <<served, boot, listVars, deleted, concurrency, fileFields, blobToken, docs, blobs, nextUrl>>

StartRequest(p) == StartWith(p, {"GET", "POST", "PUT", "PATCH", "DELETE"}, MainFileChoices, {FALSE})

\* The response is out: the invocation ends.
Retire(p) ==
    /\ req[p].pc = "done"
    /\ req' = [req EXCEPT ![p] = IdleReq]
    /\ UNCHANGED <<served, boot, listVars, deleted, concurrency, fileFields, blobToken, docs, blobs, nextId, nextUrl, started>>


\* A partial update that schedules every URL of the old document.
OldUrls_All(method, oldDoc, files) == extractBlobUrls(oldDoc, fileFields)

\* putHandler / patchHandler: await Model.findById(id), then the old URLs
\* to clean up: all of them (PUT) or those of the re-uploaded fields (PATCH).
OldUrls(method, oldDoc, files) ==
    IF method = "PUT" THEN extractBlobUrls(oldDoc, fileFields)
    ELSE {oldDoc.files[f] : f \in {g \in files : IsUrl(oldDoc.files[g])}}

FindOld(p) ==
    LET r == req[p] IN
    /\ Quiet
    /\ r.pc = "findOld"
    /\ \E fail \in BOOLEAN :
        LET r1 == [r EXCEPT !.reads = @ + 1] IN
        req' = [req EXCEPT ![p] =
            IF IsMalformed(r.id) THEN Done(r1, updateCatch(CastErr))
            ELSE IF fail THEN Done(r1, updateCatch(OtherErr))
            ELSE [r1 EXCEPT !.old = IF Live(r.id) THEN OldUrls(r.method, docs[r.id], r.files) ELSE {},
                            !.pc = IF r.files = {} THEN "update" ELSE "upload"]]
    /\ UNCHANGED <<served, boot, listVars, deleted, concurrency, fileFields, blobToken, docs, blobs, nextId, nextUrl, started>>

\* GET /:id: await Model.findById(id)
GetDoc(p) ==
    LET r == req[p] IN
    /\ Quiet
    /\ r.pc = "get"
    /\ \E fail \in BOOLEAN :
        LET err == IF IsMalformed(r.id) THEN CastErr
                   ELSE IF fail THEN OtherErr
                   ELSE IF ~Live(r.id) THEN NotFoundMark
                   ELSE NoErr
            r1 == [r EXCEPT !.reads = @ + 1, !.err = err]
        IN  req' = [req EXCEPT ![p] =
                IF err = NoErr THEN Done(r1, OkResp(200))
                ELSE IF err = NotFoundMark THEN Done(r1, NotFoundResp)
                ELSE Done(r1, getCatch(err))]
    /\ UNCHANGED <<served, boot, listVars, deleted, concurrency, fileFields, blobToken, docs, blobs, nextId, nextUrl, started>>

\* uploadFiles: await put(blobPath, buffer) of the next file. A failing put
\* rejects uploadFiles; the handler's outer catch answers.
UploadFile(p) ==
    LET r == req[p]
        i == NextUpload(r.files, r.urls, fileFields)
    IN
    /\ Quiet
    /\ r.pc = "upload"
    /\ i # 0
    /\ \E ok \in BOOLEAN :
        IF ok
        THEN LET f == fileFields[i].fieldName
                 urls == [g \in DOMAIN r.urls \cup {f} |-> IF g = f THEN nextUrl ELSE r.urls[g]]
                 over == NextUpload(r.files, urls, fileFields) = 0
             IN  /\ blobs' = blobs \cup {nextUrl}
                 /\ nextUrl' = nextUrl + 1
                 /\ req' = [req EXCEPT ![p] =
                        [r EXCEPT !.urls = urls, !.puts = @ \cup {nextUrl}, !.pathId = r.id,
                                  !.uploadedUrls = IF over THEN urls ELSE @,
                                  !.pc = IF ~over THEN "upload"
                                         ELSE IF r.method = "POST" THEN "create" ELSE "update"]]
        ELSE /\ req' = [req EXCEPT ![p] = Done(r, Catch(r.method, OtherErr))]
             /\ UNCHANGED <<blobs, nextUrl>>
    /\ UNCHANGED <<served, boot, listVars, deleted, concurrency, fileFields, blobToken, docs, nextId, started>>

\* The body of the request, read by the storage call.
\* A request that carries files may have an empty body.
BodyOf(r) == Bodies(r.id) \cup (IF r.files # {} THEN {EmptyBody} ELSE {})

\* A create that never rolls its uploads back.
postNeedsRollback_Never(uploadedUrls) == FALSE

\* postHandler: uploads exist to roll back when Model.create fails
postNeedsRollback(uploadedUrls) == DOMAIN uploadedUrls # {}

\* A _id and a file-field text that a client puts in the body of a create:
\* a well-formed identifier the server never allocates, a text that is not
\* a URL.
ClientId == MaxRequests + 10
ClientText == Undefined - 1
\* The body of a create as the client sent it.
ClientBody(r, body) ==
    IF r.ownValues THEN [body EXCEPT !.ftext = [f \in FileFieldNames |-> ClientText]] ELSE body

\* A create that keeps the _id of the body.
CreateId_Body(r) == IF r.ownValues THEN ClientId ELSE r.id

\* postHandler: body._id = docId under hasFiles; otherwise the _id of the
\* body, or the one the engine allocates.
CreateId(r) == IF hasFiles THEN r.id ELSE IF r.ownValues THEN ClientId ELSE r.id

\* postHandler: await Model.create(body)
CreateDoc(p) ==
    LET r == req[p] IN
    /\ Quiet
    /\ r.pc = "create"
    /\ \E b \in BodyOf(r), fail \in BOOLEAN :
        LET body == ClientBody(r, b)
            err == IF fail THEN OtherErr
                   ELSE IF StorageValidate(body) # <<>> THEN ValidationErr(StorageValidate(body))
                   ELSE IF Live(CreateId(r)) THEN DuplicateErr("_id")
                   ELSE IF EmailTaken(body.email, CreateId(r)) THEN DuplicateErr("email")
                   ELSE NoErr
            r1 == [r EXCEPT !.writes = @ + 1, !.err = err]
        IN  IF err = NoErr
            THEN /\ docs' = PutDoc(CreateId(r), ReplaceDoc(body, r.uploadedUrls))
                 /\ req' = [req EXCEPT ![p] = Done(r1, OkResp(201))]
            ELSE /\ docs' = docs
                 /\ req' = [req EXCEPT ![p] =
                        IF postNeedsRollback(r.uploadedUrls)
                        THEN [r1 EXCEPT !.pc = "rollback"]
                        ELSE Done(r1, postCatch(err))]
    /\ UNCHANGED <<served, boot, listVars, deleted, concurrency, fileFields, blobToken, blobs, nextId, nextUrl, started>>

\* A failed update that goes on to the cleanup of the old URLs.
updateFailed_Cleanup(r, err) == [r EXCEPT !.pc = "cleanup"]

\* A catch that answers and then forwards the error as well.
updateFailed_Both(r, err) == [Done(r, updateCatch(err)) EXCEPT !.sent = @ + 1]

\* putHandler / patchHandler: findByIdAndUpdate threw; the catch answers and
\* the old URLs stay.
updateFailed(r, err) == Done(r, updateCatch(err))

\* An update that never rolls its uploads back.
updateNeedsRollback_Never(uploadedUrls) == FALSE

\* putHandler / patchHandler: uploads exist to roll back when the update
\* finds no document
updateNeedsRollback(uploadedUrls) == DOMAIN uploadedUrls # {}

\* putHandler / patchHandler: await Model.findByIdAndUpdate(id, ...)
UpdateDoc(p) ==
    LET r == req[p] IN
    /\ Quiet
    /\ r.pc = "update"
    /\ \E body \in BodyOf(r), fail \in BOOLEAN :
        LET err == IF IsMalformed(r.id) THEN CastErr
                   ELSE IF fail THEN OtherErr
                   ELSE IF StorageValidate(body) # <<>> THEN ValidationErr(StorageValidate(body))
                   ELSE IF ~Live(r.id) THEN NotFoundMark
                   ELSE IF EmailTaken(body.email, r.id) THEN DuplicateErr("email")
                   ELSE NoErr
            r1 == [r EXCEPT !.writes = @ + 1, !.err = err]
        IN  IF err = NoErr
            THEN /\ docs' = PutDoc(r.id, IF r.method = "PUT" THEN ReplaceDoc(body, r.uploadedUrls)
                                         ELSE SetDoc(docs[r.id], body, r.uploadedUrls))
                 /\ req' = [req EXCEPT ![p] =
                        IF r.old # {} THEN [r1 EXCEPT !.pc = "cleanup"]
                        ELSE Done(r1, OkResp(200))]
            ELSE /\ docs' = docs
                 /\ req' = [req EXCEPT ![p] =
                        IF err = NotFoundMark
                        THEN IF updateNeedsRollback(r.uploadedUrls)
                             THEN [r1 EXCEPT !.pc = "rollback"]
                             ELSE Done(r1, NotFoundResp)
                        ELSE updateFailed(r1, err)]
    /\ UNCHANGED <<served, boot, listVars, deleted, concurrency, fileFields, blobToken, blobs, nextId, nextUrl, started>>

\* DELETE /:id: await Model.findByIdAndDelete(id)
DeleteDoc(p) ==
    LET r == req[p] IN
    /\ Quiet
    /\ r.pc = "delete"
    /\ \E fail \in BOOLEAN :
        LET err == IF IsMalformed(r.id) THEN CastErr
                   ELSE IF fail THEN OtherErr
                   ELSE IF ~Live(r.id) THEN NotFoundMark
                   ELSE NoErr
            r1 == [r EXCEPT !.writes = @ + 1, !.err = err]
        IN
        IF err # NoErr
        THEN /\ docs' = docs
             /\ deleted' = deleted
             /\ req' = [req EXCEPT ![p] =
                    IF err = NotFoundMark THEN Done(r1, NotFoundResp)
                    ELSE Done(r1, deleteCatch(err))]
        ELSE LET blobUrls == IF hasFiles THEN extractBlobUrls(docs[r.id], fileFields) ELSE {} IN
             /\ docs' = RemoveDoc(r.id)
             /\ deleted' = deleted \cup {r.id}
             /\ req' = [req EXCEPT ![p] =
                    IF blobUrls # {} THEN [r1 EXCEPT !.old = blobUrls, !.pc = "cleanup"]
                    ELSE Done(r1, OkResp(200))]
    /\ UNCHANGED <<served, boot, listVars, concurrency, fileFields, blobToken, blobs, nextId, nextUrl, started>>

\* deleteBlobs(urls): del(url) for every URL; a failing del is swallowed and
\* leaves its blob in the store.
deleteBlobs(urls, failed) == blobs \ (urls \ failed)

\* A deleteBlobs whose failed delete reaches the handler's catch.
afterDeleteBlobs_Surfaced(failed, resp) ==
    IF failed # {} THEN errorHandler(OtherErr) ELSE resp

\* await deleteBlobs(...).catch(() => {}), then the response the handler
\* goes on to send: every del has its own catch, so the set of failed
\* deletes does not reach the handler.
afterDeleteBlobs(failed, resp) == resp

\* The rollback of this request's uploads, then the response of the failure.
Rollback(p) ==
    LET r == req[p]
        urls == Range(r.uploadedUrls)
    IN
    /\ Quiet
    /\ r.pc = "rollback"
    /\ \E failed \in SUBSET urls :
        /\ blobs' = deleteBlobs(urls, failed)
        /\ req' = [req EXCEPT ![p] =
              Done([r EXCEPT !.dels = @ \cup urls, !.delFailed = @ \/ failed # {}],
                   afterDeleteBlobs(failed,
                       IF r.err = NotFoundMark THEN NotFoundResp ELSE Catch(r.method, r.err)))]
    /\ UNCHANGED <<served, boot, listVars, deleted, concurrency, fileFields, blobToken, docs, nextId, nextUrl, started>>

\* The cleanup of the old URLs after a successful update or delete, then the
\* success response.
Cleanup(p) ==
    LET r == req[p] IN
    /\ Quiet
    /\ r.pc = "cleanup"
    /\ \E failed \in SUBSET r.old :
        /\ blobs' = deleteBlobs(r.old, failed)
        /\ req' = [req EXCEPT ![p] =
              Done([r EXCEPT !.dels = @ \cup r.old, !.delFailed = @ \/ failed # {}],
                   afterDeleteBlobs(failed, OkResp(200)))]
    /\ UNCHANGED <<served, boot, listVars, deleted, concurrency, fileFields, blobToken, docs, nextId, nextUrl, started>>

\* ------------------------------------------------------------ GET / (list)
\* A JavaScript string is its sequence of characters; a request parameter
\* that is not in the query string is Absent.
Absent == <<"undefined">>
Digits == <<"0", "1", "2", "3", "4", "5", "6", "7", "8", "9">>
IsDigit(c) == \E i \in 1..10 : Digits[i] = c
DigitVal(c) == (CHOOSE i \in 1..10 : Digits[i] = c) - 1
\* The characters of the modelled strings, in code-unit order.
CharOrder ==
    <<" ", "+", "-", ".", "/", "0", "1", "2", "3", "4", "5", "6", "7", "8", "9",
      "A", "B", "C", "J", "a", "b", "c", "h", "i", "j", "n", "o">>
CharCode(c) == CHOOSE i \in 1..Len(CharOrder) : CharOrder[i] = c
toLowerCase(c) ==
    IF c = "A" THEN "a" ELSE IF c = "B" THEN "b" ELSE IF c = "C" THEN "c"
    ELSE IF c = "J" THEN "j" ELSE c
Front(s) == SubSeq(s, 1, Len(s) - 1)
Last(s) == s[Len(s)]

RECURSIVE TrimStart(_)
TrimStart(s) == IF s # <<>> /\ Head(s) = " " THEN TrimStart(Tail(s)) ELSE s
RECURSIVE TrimEnd(_)
TrimEnd(s) == IF s # <<>> /\ Last(s) = " " THEN TrimEnd(Front(s)) ELSE s
trim(s) == TrimEnd(TrimStart(s))

\* A JavaScript number: NaN or an integer.
Num(n) == [nan |-> FALSE, n |-> n]
NaN == [nan |-> TRUE, n |-> 0]
MathMax(a, b) == IF a.nan \/ b.nan THEN NaN ELSE Num(Max(a.n, b.n))
MathMin(a, b) == IF a.nan \/ b.nan THEN NaN ELSE Num(Min(a.n, b.n))
JsSub(a, b) == IF a.nan \/ b.nan THEN NaN ELSE Num(a.n - b.n)
JsMul(a, b) == IF a.nan \/ b.nan THEN NaN ELSE Num(a.n * b.n)
JsLess(a, b) == ~a.nan /\ ~b.nan /\ a.n < b.n
\* Math.ceil(a / b) for a >= 0 and b >= 1, NaN when either is NaN.
MathCeilDiv(a, b) == IF a.nan \/ b.nan THEN NaN ELSE Num((a.n + b.n - 1) \div b.n)

\* The leading decimal digits of s: whether there are any, their value, and
\* what follows them.
RECURSIVE ParseDigits(_, _, _)
ParseDigits(s, acc, seen) ==
    IF s # <<>> /\ IsDigit(Head(s))
    THEN ParseDigits(Tail(s), acc * 10 + DigitVal(Head(s)), TRUE)
    ELSE [seen |-> seen, n |-> acc, rest |-> s]
Unsigned(s) == IF s # <<>> /\ Head(s) \in {"-", "+"} THEN Tail(s) ELSE s
SignOf(s) == IF s # <<>> /\ Head(s) = "-" THEN -1 ELSE 1

\* parseInt(string): leading white space, a sign, then digits up to the first
\* other character; NaN without a digit.
parseInt(s) ==
    LET t == TrimStart(s)
        d == ParseDigits(Unsigned(t), 0, FALSE)
    IN  IF d.seen THEN Num(SignOf(t) * d.n) ELSE NaN

\* Number(string) over the modelled characters: white space trimmed, the
\* empty string is 0, a signed digit string is its value, all else NaN.
Number(s) ==
    LET t == trim(s)
        d == ParseDigits(Unsigned(t), 0, FALSE)
    IN  IF t = <<>> THEN Num(0)
        ELSE IF d.seen /\ d.rest = <<>> THEN Num(SignOf(t) * d.n) ELSE NaN

\* A value of a compiled clause: a number or a string.
NumV(n) == [t |-> "num", n |-> n, s |-> <<>>]
StrV(s) == [t |-> "str", n |-> 0, s |-> s]
\* isNaN(Number(strValue)) ? strValue : Number(strValue)
Coerce(strValue) ==
    IF Number(strValue).nan THEN StrV(strValue) ELSE NumV(Number(strValue).n)

\* query[field]: a primitive (equality) or an object of $-properties.
QPrim(v) == [kind |-> "prim", val |-> v, obj |-> EmptyMap]
QObj(o) == [kind |-> "obj", val |-> NumV(0), obj |-> o]
\* !query[field] is false
Truthy(q, field) ==
    /\ field \in DOMAIN q
    /\ \/ q[field].kind = "obj"
       \/ q[field].val.t = "num" /\ q[field].val.n # 0
       \/ q[field].val.t = "str" /\ q[field].val.s # <<>>
SetKey(f, k, v) == [x \in DOMAIN f \cup {k} |-> IF x = k THEN v ELSE f[x]]


\* A query key is its sequence of "_"-separated parts: age_gte is
\* <<"age", "gte">>. A field name is written the same way.
Operators == {"gt", "gte", "lt", "lte", "ne"}
\* key.startsWith("_")
startsWithUnderscore(key) == Len(key) >= 2 /\ key[1] = ""
\* key.match(/^(.+)_(gt|gte|lt|lte|ne)$/)
operatorMatch(key) ==
    /\ Len(key) >= 2
    /\ Last(key) \in Operators
    /\ ~(Len(key) = 2 /\ key[1] = "")
\* An isFilterable that lets every field through.
isFilterable_Always(field) == TRUE
\* createRouter: isFilterable, in the two builds
isFilterable(field) ==
    IF filterBy = {} THEN variant = "js" ELSE field \in filterBy
\* value.startsWith("/") && value.endsWith("/")
IsRegexForm(value) == value # <<>> /\ Head(value) = "/" /\ Last(value) = "/"
\* value.slice(1, -1)
slice1(value) == SubSeq(value, 2, Len(value) - 1)

\* One turn of the filter loop on the query built so far; threw is the
\* TypeError of assigning a property on a primitive in strict mode.
CompileEntry(c, key, value) ==
    LET q == c.query
        field == Front(key)
        cur == IF Truthy(q, field) THEN q[field] ELSE QObj(EmptyMap)
    IN  IF c.threw \/ startsWithUnderscore(key) THEN c
        ELSE IF operatorMatch(key)
        THEN IF ~isFilterable(field) THEN c
             ELSE IF cur.kind = "prim"
                  THEN [c EXCEPT !.threw = (variant = "ts")]
                  ELSE [c EXCEPT !.query =
                          SetKey(q, field, QObj(SetKey(cur.obj, Last(key), Coerce(value))))]
        ELSE IF ~isFilterable(key) THEN c
             ELSE IF IsRegexForm(value)
                  THEN [c EXCEPT !.query =
                          SetKey(q, key, QObj(SetKey(SetKey(EmptyMap, "regex", StrV(slice1(value))),
                                                     "options", StrV(<<"i">>))))]
                  ELSE [c EXCEPT !.query = SetKey(q, key, QPrim(Coerce(value)))]

RECURSIVE CompileFrom(_, _)
CompileFrom(filters, c) ==
    IF filters = <<>> THEN c
    ELSE CompileFrom(Tail(filters), CompileEntry(c, Head(filters)[1], Head(filters)[2]))
\* for (const [key, value] of Object.entries(filters)) ...
CompileFilters(filters) == CompileFrom(filters, [query |-> EmptyMap, threw |-> FALSE])

\* search && String(search).trim() && searchBy.length > 0: the term of the
\* $or clause, Absent when none is added.
SearchTerm(search) ==
    IF search # Absent /\ search # <<>> /\ trim(search) # <<>> /\ searchBy # {}
    THEN trim(search) ELSE Absent

\* The paging numbers of the handler.
PageText(page) == IF page = Absent THEN <<"1">> ELSE page
LimitText(limit) == IF limit = Absent THEN <<"1", "0">> ELSE limit
PageNum(page) == MathMax(Num(1), parseInt(PageText(page)))
LimitNum(limit) == MathMin(Num(100), MathMax(Num(1), parseInt(LimitText(limit))))
Skip(pageNum, limitNum) == JsMul(JsSub(pageNum, Num(1)), limitNum)
TotalPages(total, limitNum) == MathCeilDiv(Num(total), limitNum)
\* A hasNext that is still true on the last page.
HasNext_Inclusive(pageNum, total, limitNum) ==
    ~pageNum.nan /\ ~limitNum.nan /\ pageNum.n <= ((total + limitNum.n - 1) \div limitNum.n)
HasNext(pageNum, total, limitNum) == JsLess(pageNum, TotalPages(total, limitNum))
HasPrev(pageNum) == JsLess(Num(1), pageNum)

\* The listed documents: rank is the position in the requested sort order.
Names == << <<"J", "o", "h", "n">>, <<"B", "o", "b">>, <<"A", "n", "n", "a">> >>
Doc(i) == [rank |-> i, age |-> 17 + i, name |-> Names[(i % 3) + 1], grade |-> StrV(<<"A">>)]
Docs(n) == [i \in 1..n |-> Doc(i)]
DocHas(field) == field \in {<<"age">>, <<"name">>, <<"grade">>}
DocVal(doc, field) ==
    IF field = <<"age">> THEN NumV(doc.age)
    ELSE IF field = <<"name">> THEN StrV(doc.name)
    ELSE doc.grade

\* String order by code units.
RECURSIVE StrLess(_, _)
StrLess(a, b) ==
    IF b = <<>> THEN FALSE
    ELSE IF a = <<>> THEN TRUE
    ELSE IF Head(a) # Head(b) THEN CharCode(Head(a)) < CharCode(Head(b))
    ELSE StrLess(Tail(a), Tail(b))
ValLess(a, b) ==
    /\ a.t = b.t
    /\ IF a.t = "num" THEN a.n < b.n ELSE StrLess(a.s, b.s)
LowerCase(s) == [i \in 1..Len(s) |-> toLowerCase(s[i])]
\* A string contains a text, letter case aside.
ContainsText(v, text) ==
    /\ v.t = "str"
    /\ \E i \in 0..Len(v.s) :
          /\ i + Len(text) <= Len(v.s)
          /\ SubSeq(LowerCase(v.s), i + 1, i + Len(text)) = LowerCase(text)
\* { $regex: term, $options: "i" } over the modelled characters: the term is
\* a pattern, in which "." stands for any character.
MatchesRegex(v, term) ==
    /\ v.t = "str"
    /\ \E i \in 0..Len(v.s) :
          /\ i + Len(term) <= Len(v.s)
          /\ \A k \in 1..Len(term) :
                term[k] = "." \/ toLowerCase(v.s[i + k]) = toLowerCase(term[k])

\* Whether a document satisfies one $-property of a clause.
PropHolds(doc, field, prop, v) ==
    IF prop = "ne" THEN ~(DocHas(field) /\ DocVal(doc, field) = v)
    ELSE IF prop = "options" THEN TRUE
    ELSE /\ DocHas(field)
         /\ IF prop = "regex" THEN MatchesRegex(DocVal(doc, field), v.s)
            ELSE IF prop = "gt" THEN ValLess(v, DocVal(doc, field))
            ELSE IF prop = "gte" THEN ValLess(v, DocVal(doc, field)) \/ v = DocVal(doc, field)
            ELSE IF prop = "lt" THEN ValLess(DocVal(doc, field), v)
            ELSE ValLess(DocVal(doc, field), v) \/ v = DocVal(doc, field)
\* Model.find(query) / Model.countDocuments(query): the matching rule
Matches(doc, query, orTerm) ==
    /\ \A field \in DOMAIN query :
          IF query[field].kind = "prim"
          THEN DocHas(field) /\ DocVal(doc, field) = query[field].val
          ELSE \A prop \in DOMAIN query[field].obj :
                  PropHolds(doc, field, prop, query[field].obj[prop])
    /\ orTerm # Absent =>
          \E field \in searchBy :
              DocHas(field) /\ MatchesRegex(DocVal(doc, field), orTerm)
Matching(query, orTerm) == SelectSeq(collection, LAMBDA d : Matches(d, query, orTerm))
\* .skip(skip).limit(limitNum) of the matching documents
PageOf(matching, skip, limitNum) ==
    SubSeq(matching, skip + 1, Min(skip + limitNum, Len(matching)))

NoPagination ==
    [total |-> 0, page |-> Num(0), limit |-> Num(0), totalPages |-> Num(0),
     hasNext |-> FALSE, hasPrev |-> FALSE]
NoListResp ==
    [status |-> 0, success |-> FALSE, data |-> <<>>, pagination |-> NoPagination, via |-> "",
     count |-> 0, allowed |-> {}]
\* catch (err) { next(err) }: the generic error handler answers
ListErrorResp(err) ==
    [NoListResp EXCEPT !.status = errorHandler(err).status, !.via = "errorHandler"]
\* res.json({ success: true, data, pagination: {...} })
ListOkResp(data, total, pageNum, limitNum) ==
    [NoListResp EXCEPT !.status = 200, !.success = TRUE, !.data = data, !.via = "handler",
     !.pagination = [total |-> total, page |-> pageNum, limit |-> limitNum,
                     totalPages |-> TotalPages(total, limitNum),
                     hasNext |-> HasNext(pageNum, total, limitNum),
                     hasPrev |-> HasPrev(pageNum)]]

IdleList ==
    [pc |-> "idle", page |-> Absent, limit |-> Absent, search |-> Absent, filters |-> <<>>,
     query |-> EmptyMap, orTerm |-> Absent, threw |-> FALSE,
     pageNum |-> Num(0), limitNum |-> Num(0), skip |-> Num(0),
     field |-> <<>>, distinctCalls |-> 0, resp |-> NoListResp]

\* GET /: from the request to the storage calls (or to the error handler when
\* the filter loop throws).
ListWith(page, limit, search, filters) ==
    LET c == CompileFilters(filters)
        r == [IdleList EXCEPT !.page = page, !.limit = limit, !.search = search,
                              !.filters = filters, !.threw = c.threw]
    IN  /\ lreq.pc = "idle"
        /\ lreq' = IF c.threw
                   THEN [r EXCEPT !.pc = "done", !.resp = ListErrorResp(OtherErr)]
                   ELSE [r EXCEPT !.pc = "find", !.query = c.query,
                                  !.orTerm = SearchTerm(search),
                                  !.pageNum = PageNum(page),
                                  !.limitNum = LimitNum(limit),
                                  !.skip = Skip(PageNum(page), LimitNum(limit))]
        /\ UNCHANGED <<boot, mutVars, variant, filterBy, searchBy, collection>>

\* What find and countDocuments may do: with numeric skip and limit they
\* return; a NaN skip or limit is either refused or taken as none.
FindOutcomes(r) == IF r.skip.nan \/ r.limitNum.nan THEN {"fails", "unlimited"} ELSE {"returns"}

\* Promise.all([find, countDocuments]) settles and the response is sent.
ListFind ==
    /\ lreq.pc = "find"
    /\ \E outcome \in FindOutcomes(lreq) :
          LET matching == Matching(lreq.query, lreq.orTerm)
              data == IF outcome = "returns"
                      THEN PageOf(matching, lreq.skip.n, lreq.limitNum.n)
                      ELSE matching
          IN  lreq' = [lreq EXCEPT !.pc = "done",
                          !.resp = IF outcome = "fails" THEN ListErrorResp(OtherErr)
                                   ELSE ListOkResp(data, Len(matching), lreq.pageNum, lreq.limitNum)]
    /\ UNCHANGED <<boot, mutVars, variant, filterBy, searchBy, collection>>

ListRetire ==
    /\ lreq.pc = "done"
    /\ lreq' = IdleList
    /\ UNCHANGED <<boot, mutVars, variant, filterBy, searchBy, collection>>

\* ------------------------------------------------------ GET /filters/:field
\* The route exists in the TypeScript build when filterBy is not empty; any
\* other request for it falls through to notFoundHandler.
FiltersRouteMounted == variant = "ts" /\ filterBy # {}

\* Model.distinct(field): the values of the field, each once, in the order
\* the engine meets them.
RECURSIVE Dedup(_, _)
Dedup(vals, acc) ==
    IF vals = <<>> THEN acc
    ELSE Dedup(Tail(vals),
               IF \E i \in 1..Len(acc) : acc[i] = Head(vals) THEN acc ELSE Append(acc, Head(vals)))
distinct(field) ==
    IF DocHas(field)
    THEN Dedup([i \in 1..Len(collection) |-> DocVal(collection[i], field)], <<>>)
    ELSE <<>>

\* a.localeCompare(b) < 0: letters first by alphabet, lower case before upper.
localeLess(a, b) ==
    \/ StrLess(LowerCase(a), LowerCase(b))
    \/ LowerCase(a) = LowerCase(b) /\ StrLess(b, a)
\* The comparator of values.sort: strings by localeCompare, numbers by
\* difference, any other pair 0.
compare(a, b) ==
    IF a.t = "str" /\ b.t = "str"
    THEN IF localeLess(a.s, b.s) THEN -1 ELSE IF a.s = b.s THEN 0 ELSE 1
    ELSE IF a.t = "num" /\ b.t = "num"
    THEN IF a.n < b.n THEN -1 ELSE IF a.n = b.n THEN 0 ELSE 1
    ELSE 0
\* A consistent comparator orders the values it is given transitively.
ConsistentOn(vals) ==
    \A i, j, k \in 1..Len(vals) :
        /\ (compare(vals[i], vals[j]) = 0 /\ compare(vals[j], vals[k]) = 0)
              => compare(vals[i], vals[k]) = 0
        /\ (compare(vals[i], vals[j]) < 0 /\ compare(vals[j], vals[k]) <= 0)
              => compare(vals[i], vals[k]) < 0
        /\ (compare(vals[i], vals[j]) <= 0 /\ compare(vals[j], vals[k]) < 0)
              => compare(vals[i], vals[k]) < 0
\* The stable sort: v goes behind the last element that is not after it.
InsertSorted(sorted, v) ==
    LET k == Cardinality({i \in 1..Len(sorted) : compare(sorted[i], v) <= 0})
    IN  SubSeq(sorted, 1, k) \o <<v>> \o SubSeq(sorted, k + 1, Len(sorted))
RECURSIVE StableSort(_, _)
StableSort(vals, sorted) ==
    IF vals = <<>> THEN sorted ELSE StableSort(Tail(vals), InsertSorted(sorted, Head(vals)))
Reorderings(vals) ==
    {s \in [1..Len(vals) -> Range(vals)] : \A i, j \in 1..Len(vals) : i # j => s[i] # s[j]}
\* values.sort(comparator): sorted and stable under a consistent comparator,
\* otherwise an order the engine's sort chooses.
SortOutcomes(vals) ==
    IF ConsistentOn(vals) THEN {StableSort(vals, <<>>)} ELSE Reorderings(vals)

\* res.status(400).json({error: `Field ... is not filterable. Allowed filter fields: ...`})
NotFilterableResp ==
    [NoListResp EXCEPT !.status = 400, !.via = "handler", !.allowed = filterBy]
\* notFoundHandler
RouteNotFoundResp == [NoListResp EXCEPT !.status = 404, !.via = "notFoundHandler"]
\* res.json({success: true, resource, field, count: values.length, values})
DistinctOkResp(values) ==
    [NoListResp EXCEPT !.status = 200, !.success = TRUE, !.via = "handler",
                       !.data = values, !.count = Len(values)]

\* GET /filters/:field up to the storage call.
DistinctWith(field) ==
    LET r == [IdleList EXCEPT !.field = field] IN
    /\ lreq.pc = "idle"
    /\ lreq' = IF ~FiltersRouteMounted THEN [r EXCEPT !.pc = "done", !.resp = RouteNotFoundResp]
               ELSE IF ~isFilterable(field)
                    THEN [r EXCEPT !.pc = "done", !.resp = NotFilterableResp]
                    ELSE [r EXCEPT !.pc = "distinct", !.distinctCalls = 1]
    /\ UNCHANGED <<boot, mutVars, variant, filterBy, searchBy, collection>>

\* Model.distinct settles; the values are sorted and sent.
DistinctReturn ==
    /\ lreq.pc = "distinct"
    /\ \E fail \in BOOLEAN :
          IF fail
          THEN lreq' = [lreq EXCEPT !.pc = "done", !.resp = ListErrorResp(OtherErr)]
          ELSE \E values \in SortOutcomes(distinct(lreq.field)) :
                  lreq' = [lreq EXCEPT !.pc = "done", !.resp = DistinctOkResp(values)]
    /\ UNCHANGED <<boot, mutVars, variant, filterBy, searchBy, collection>>

\* The requests of the two list specifications.
MaxTotal == 12
MaxLen == 3
MaxKeys == 2
ParamChars == {"0", "1", "2", "5", "-", "a"}
StringsUpTo(n) == UNION {[1..k -> ParamChars] : k \in 0..n}
ParamTexts == {Absent} \cup StringsUpTo(MaxLen)
FewParamTexts == {Absent, <<"2">>, <<"5">>}
FilterKeys ==
    {<<f>> : f \in {"age", "name"}}
        \cup {<<f, o>> : f \in {"age", "name"}, o \in {"gte", "lte", "ne"}}
        \cup {<<"", "private">>, <<"age", "max">>}
FilterValues == {<<>>, <<"1", "8">>, <<"2", "0">>, <<"/", "j", "o", "/">>}
FilterLists ==
    {fs \in UNION {[1..k -> FilterKeys \X FilterValues] : k \in 0..MaxKeys} :
        \A i, j \in 1..Len(fs) : i # j => fs[i][1] # fs[j][1]}
Searches == {Absent, <<" ">>, <<"j", "o">>, <<" ", "J", "o">>, <<"o", ".", "n">>}

ListFiltered ==
    /\ lreq.pc = "idle"
    /\ \E filters \in FilterLists :
          \E search \in (IF Len(filters) <= 1 THEN Searches ELSE {Absent}) :
              ListWith(Absent, Absent, search, filters)
ListPaged ==
    /\ lreq.pc = "idle"
    /\ \E few \in FewParamTexts, any \in ParamTexts :
          \E pl \in {<<few, any>>, <<any, few>>} :
              ListWith(pl[1], pl[2], Absent, <<>>)

\* ------------------------------------------------------------- rapidAPI
\* Starting the server. A configuration carries the connection string
\* ("" when it is missing), whether the resource list is given as an array,
\* the list itself and whether a blob token is given. A resource carries its name
\* ("" when it is missing) and the kind of its schema: an object of plain
\* fields, an object with a File field, no schema at all, or a text where
\* the schema object should be.
MaxResources == 3
SchemaKinds == {"fields", "files", "absent", "text"}
ResourceDefinitions == [name : {"", "students"}, schema : SchemaKinds]
ResourceLists == UNION {[1..n -> ResourceDefinitions] : n \in 0..MaxResources}
RapidAPIConfigs ==
    {config \in [mongoURI : {"", "mongodb://db"},
                 isArray : BOOLEAN,
                 resources : ResourceLists,
                 blobToken : BOOLEAN] :
        ~config.isArray => config.resources = <<>>}

NoConfig == [mongoURI |-> "", isArray |-> FALSE, resources |-> <<>>, blobToken |-> FALSE]
NotBooted(config) ==
    [pc |-> "idle", config |-> config, connected |-> FALSE,
     registered |-> <<>>, listening |-> FALSE, error |-> ""]
NoBoot == NotBooted(NoConfig)

\* rapidAPI: resources.some(r => extractFileFields(r.schema).length > 0).
\* The scan stops at the first resource with a File field; Object.entries
\* of a missing schema throws a TypeError.
hasFileFields(resources) ==
    LET hits == {i \in 1..Len(resources) : resources[i].schema \in {"files", "absent"}}
    IN  IF hits = {} THEN "no"
        ELSE LET first == CHOOSE i \in hits : \A j \in hits : i <= j
             IN  IF resources[first].schema = "absent" THEN "TypeError" ELSE "yes"

\* rapidAPI: the checks before the Express app is created; "" when the
\* configuration passes them.
ValidateConfig(config) ==
    IF config.mongoURI = "" THEN "mongoURI is required"
    ELSE IF ~config.isArray \/ Len(config.resources) = 0
    THEN "At least one resource is required"
    ELSE IF hasFileFields(config.resources) = "TypeError" THEN "TypeError"
    ELSE IF hasFileFields(config.resources) = "yes" /\ ~config.blobToken
    THEN "blobToken is required"
    ELSE ""

ResourceError_None(resource) == ""

\* rapidAPI: the checks at the head of the registration loop.
ResourceError(resource) ==
    IF resource.name = "" THEN "Each resource must have a name"
    ELSE IF resource.schema \in {"absent", "text"} THEN "must have a schema object"
    ELSE ""

\* The position of the first resource the registration loop rejects, 0
\* when it registers them all.
FirstRejected(resources) ==
    LET bad == {i \in 1..Len(resources) : ResourceError(resources[i]) # ""}
    IN  IF bad = {} THEN 0 ELSE CHOOSE i \in bad : \A j \in bad : i <= j

\* rapidAPI is called: the synchronous part up to mongoose.connect.
RapidAPI ==
    /\ boot.pc = "idle"
    /\ LET err == ValidateConfig(boot.config)
       IN  boot' = IF err # ""
                   THEN [boot EXCEPT !.pc = "rejected", !.error = err]
                   ELSE [boot EXCEPT !.pc = "connecting"]
    /\ UNCHANGED <<mutVars, listVars>>

\* mongoose.connect settles: on failure rapidAPI rejects; otherwise the
\* resources are registered in order up to the first one rejected, and
\* only when all are registered app.listen is called.
Connect ==
    /\ boot.pc = "connecting"
    /\ \E ok \in BOOLEAN :
          LET resources == boot.config.resources
              k == FirstRejected(resources)
              upto == IF k = 0 THEN Len(resources) ELSE k - 1
          IN  boot' =
                IF ~ok
                THEN [boot EXCEPT !.pc = "rejected",
                                  !.error = "MongoDB connection failed"]
                ELSE IF k # 0
                THEN [boot EXCEPT !.pc = "rejected", !.connected = TRUE,
                                  !.registered = [i \in 1..upto |-> resources[i].name],
                                  !.error = ResourceError(resources[k])]
                ELSE [boot EXCEPT !.pc = "resolved", !.connected = TRUE,
                                  !.registered = [i \in 1..upto |-> resources[i].name]]
    /\ UNCHANGED <<mutVars, listVars>>

\* app.listen: the server binds the port, or the port is taken.
Listen ==
    /\ boot.pc = "resolved"
    /\ \E free \in BOOLEAN :
          boot' = IF free
                  THEN [boot EXCEPT !.pc = "listening", !.listening = TRUE]
                  ELSE [boot EXCEPT !.pc = "listenError", !.error = "EADDRINUSE"]
    /\ UNCHANGED <<mutVars, listVars>>

NoMutations ==
    /\ fileFields = <<>>
    /\ blobToken = FALSE
    /\ docs = EmptyMap
    /\ blobs = {}
    /\ nextId = 1
    /\ nextUrl = 1
    /\ started = 0
    /\ concurrency = 1
    /\ req = [p \in Procs |-> IdleReq]
    /\ deleted = {}
    /\ served = {}
NoLists ==
    /\ variant = "ts"
    /\ filterBy = {}
    /\ searchBy = {}
    /\ collection = <<>>
    /\ lreq = IdleList

InitList ==
    /\ NoMutations
    /\ boot = NoBoot
    /\ variant \in {"ts", "js"}
    /\ filterBy \in {{}, {<<"age">>}, {<<"age">>, <<"name">>}}
    /\ searchBy \in {{}, {<<"name">>}}
    /\ collection = Docs(3)
    /\ lreq = IdleList
NextList == ListFiltered \/ ListFind \/ ListRetire
SpecList == InitList /\ [][NextList]_vars

InitPage ==
    /\ NoMutations
    /\ boot = NoBoot
    /\ variant \in {"ts", "js"}
    /\ filterBy = {}
    /\ searchBy = {}
    /\ collection \in {Docs(n) : n \in 0..MaxTotal}
    /\ lreq = IdleList
NextPage == ListPaged \/ ListFind \/ ListRetire
SpecPage == InitPage /\ [][NextPage]_vars

\* The distinct-values requests: grades as text or numbers.
MaxGrades == 4
GradeValues == {StrV(<<"A">>), StrV(<<"B">>), StrV(<<"C">>), NumV(2), NumV(10)}
GradedDocs(gs) == [i \in 1..Len(gs) |-> [Doc(i) EXCEPT !.grade = gs[i]]]
DistinctFields == {<<"grade">>, <<"age">>, <<"nick">>}
DistinctRequest == \E field \in DistinctFields : DistinctWith(field)

InitDistinct ==
    /\ NoMutations
    /\ boot = NoBoot
    /\ variant \in {"ts", "js"}
    /\ filterBy \in {{}, {<<"grade">>}, {<<"grade">>, <<"nick">>}}
    /\ searchBy = {}
    /\ collection \in {GradedDocs(gs) : gs \in UNION {[1..n -> GradeValues] : n \in 0..MaxGrades}}
    /\ lreq = IdleList
NextDistinct == DistinctRequest \/ DistinctReturn \/ ListRetire
SpecDistinct == InitDistinct /\ [][NextDistinct]_vars

Init ==
    /\ fileFields = MainFileFields
    /\ blobToken = TRUE
    /\ docs = EmptyMap
    /\ blobs = {}
    /\ nextId = 1
    /\ nextUrl = 1
    /\ started = 0
    /\ concurrency = 1
    /\ req = [p \in Procs |-> IdleReq]
    /\ deleted = {}
    /\ served = {}
    /\ NoLists
    /\ boot = NoBoot

Next ==
    \E p \in Procs :
        \/ StartRequest(p)
        \/ GetDoc(p)
        \/ FindOld(p)
        \/ UploadFile(p)
        \/ CreateDoc(p)
        \/ UpdateDoc(p)
        \/ DeleteDoc(p)
        \/ Rollback(p)
        \/ Cleanup(p)
        \/ Retire(p)

Spec == Init /\ [][Next]_vars


\* ------------------------------------------------ one create, every config
\* The file-field configurations: idCard alone or idCard and photo, each
\* with or without required, maxSize and accept.
IdCardConfigs ==
    {[fieldName |-> "idCard", required |-> rq, maxSize |-> m, accept |-> a] :
        rq \in BOOLEAN, m \in {Undefined, 5, 20}, a \in {<<>>, AcceptDocs}}
PhotoConfigs ==
    {[fieldName |-> "photo", required |-> rq, maxSize |-> m, accept |-> a] :
        rq \in BOOLEAN, m \in {Undefined, 5, 20}, a \in {<<>>, AcceptImages}}
FileFieldConfigs ==
    {<<a>> : a \in IdCardConfigs} \cup {<<a, b>> : a \in IdCardConfigs, b \in PhotoConfigs}

StartCreate(p) == StartWith(p, {"POST"}, FileChoices, BOOLEAN)

InitCreate ==
    /\ fileFields \in FileFieldConfigs
    /\ blobToken = TRUE
    /\ docs = EmptyMap
    /\ blobs = {}
    /\ nextId = 1
    /\ nextUrl = 1
    /\ started = MaxRequests - 1
    /\ concurrency = 1
    /\ req = [p \in Procs |-> IdleReq]
    /\ deleted = {}
    /\ served = {}
    /\ NoLists
    /\ boot = NoBoot

NextCreate ==
    \E p \in Procs :
        \/ StartCreate(p)
        \/ UploadFile(p)
        \/ CreateDoc(p)
        \/ Rollback(p)
        \/ Retire(p)

SpecCreate == InitCreate /\ [][NextCreate]_vars

\* ------------------------------------------------ starting the server
InitStartup ==
    /\ NoMutations
    /\ NoLists
    /\ boot \in {NotBooted(config) : config \in RapidAPIConfigs}
NextStartup == RapidAPI \/ Connect \/ Listen
SpecStartup == InitStartup /\ [][NextStartup]_vars

\* ------------------------------------------ every call returns or fails
\* The last requests of the server, each of whose storage and blob calls
\* returns or fails: a handler that waits for a call goes on.
\* A document whose file fields carry the URLs of two stored blobs.
StoredDoc == [email |-> "e1", files |-> [f \in FileFieldNames |-> IF f = "idCard" THEN 1 ELSE 2]]
HandlerStep(p) ==
    \/ GetDoc(p) \/ FindOld(p) \/ UploadFile(p) \/ CreateDoc(p)
    \/ UpdateDoc(p) \/ DeleteDoc(p) \/ Rollback(p) \/ Cleanup(p)
InitLive ==
    /\ fileFields = MainFileFields
    /\ blobToken = TRUE
    /\ docs \in {EmptyMap, [d \in {1} |-> StoredDoc]}
    /\ blobs = IF docs = EmptyMap THEN {} ELSE {1, 2}
    /\ nextId = IF docs = EmptyMap THEN 1 ELSE 2
    /\ nextUrl = IF docs = EmptyMap THEN 1 ELSE 3
    /\ started = MaxRequests - 2
    /\ concurrency = 1
    /\ req = [p \in Procs |-> IdleReq]
    /\ deleted = {}
    /\ served = {}
    /\ NoLists
    /\ boot = NoBoot
SpecLive == InitLive /\ [][Next]_vars /\ \A p \in Procs : WF_vars(HandlerStep(p))

\* ------------------------------------------------- two updates at once
\* Two replace or partial-update requests in flight together on a collection
\* whose one document holds the URL of a stored blob in idCard. The record
\* of a request is kept when its invocation ends.
RaceDoc == [email |-> "e1", files |-> [f \in FileFieldNames |-> IF f = "idCard" THEN 1 ELSE None]]
StartUpdate(p) == StartWith(p, {"PUT", "PATCH"}, {FileOf(1, Pdf)}, {FALSE})
RetireServed(p) ==
    /\ req[p].pc = "done"
    /\ served' = served \cup {req[p]}
    /\ req' = [req EXCEPT ![p] = IdleReq]
    /\ UNCHANGED <<boot, listVars, deleted, concurrency, fileFields, blobToken, docs, blobs, nextId, nextUrl, started>>

InitRace ==
    /\ fileFields = MainFileFields
    /\ blobToken = TRUE
    /\ docs = [d \in {1} |-> RaceDoc]
    /\ blobs = {1}
    /\ nextId = 2
    /\ nextUrl = 2
    /\ started = MaxRequests - 2
    /\ concurrency = 2
    /\ req = [p \in Procs |-> IdleReq]
    /\ deleted = {}
    /\ served = {}
    /\ NoLists
    /\ boot = NoBoot

NextRace ==
    \E p \in Procs :
        \/ StartUpdate(p)
        \/ FindOld(p)
        \/ UploadFile(p)
        \/ UpdateDoc(p)
        \/ Rollback(p)
        \/ Cleanup(p)
        \/ RetireServed(p)

SpecRace == InitRace /\ [][NextRace]_vars

\* ---------------------------------------------- a router without files
\* createRouter with no file fields or without a blob token, on a collection
\* that is empty or holds a document whose file fields carry the URLs of two
\* stored blobs.
StartPlain(p) ==
    StartWith(p, {"GET", "POST", "PUT", "PATCH", "DELETE"}, MainFileChoices, BOOLEAN)

InitPlain ==
    /\ fileFields \in {<<>>, MainFileFields}
    /\ blobToken \in BOOLEAN
    /\ fileFields = <<>> \/ ~blobToken
    /\ \E stored \in BOOLEAN :
          /\ docs = IF stored THEN [d \in {1} |-> StoredDoc] ELSE EmptyMap
          /\ blobs = IF stored THEN {1, 2} ELSE {}
          /\ nextId = IF stored THEN 2 ELSE 1
          /\ nextUrl = IF stored THEN 3 ELSE 1
    /\ started = 0
    /\ concurrency = 1
    /\ req = [p \in Procs |-> IdleReq]
    /\ deleted = {}
    /\ served = {}
    /\ NoLists
    /\ boot = NoBoot

NextPlain ==
    \E p \in Procs :
        \/ StartPlain(p)
        \/ GetDoc(p)
        \/ CreateDoc(p)
        \/ UpdateDoc(p)
        \/ DeleteDoc(p)
        \/ Retire(p)

SpecPlain == InitPlain /\ [][NextPlain]_vars

\* ------------------------------------------------------------------ claims
Finished(p) == req[p].pc = "done"
IsMutation(p) == req[p].method \in {"POST", "PUT", "PATCH"}

\* C1: when no request is in flight, every URL held in a file field of a
\* live document denotes a blob that exists in the blob store.
C1_LiveUrlsExist ==
    (\A p \in Procs : req[p].pc \in {"idle", "done"}) =>
        \A d \in DOMAIN docs : \A f \in FileFieldNames :
            IsUrl(docs[d].files[f]) => docs[d].files[f] \in blobs

\* C2: after a failed create, replace or partial update none of whose blob
\* deletes failed, no blob uploaded by that request is left in the store.
C2_NoOrphanAfterFailure ==
    \A p \in Procs :
        (Finished(p) /\ IsMutation(p) /\ ~req[p].resp.success /\ ~req[p].delFailed)
            => req[p].puts \cap blobs = {}

\* C3: in create, once Model.create failed after uploads and the response is
\* out, a delete was issued for exactly the URLs this request uploaded, and
\* the storage error decides the response: validation 400, duplicate 409,
\* anything else 500 through the error handler.
C3_CreateRollback ==
    \A p \in Procs :
        (req[p].method = "POST" /\ req[p].err # NoErr /\ req[p].puts # {} /\ req[p].resp # NoResp)
            => /\ req[p].dels = req[p].puts
               /\ req[p].err.name = "ValidationError" =>
                    (req[p].resp.status = 400 /\ req[p].resp.error = "Validation failed")
               /\ req[p].err.code = 11000 =>
                    (req[p].resp.status = 409 /\ req[p].resp.field = "email")
               /\ req[p].err = OtherErr =>
                    (req[p].resp.status = 500 /\ req[p].resp.via = "errorHandler")

\* A create that uploaded both files, hit the unique index and rolled back.
C3_Witness ==
    \E p \in Procs :
        /\ Finished(p) /\ req[p].method = "POST"
        /\ req[p].err.code = 11000
        /\ Cardinality(req[p].dels) = 2

\* C4: a create that carries a file larger than its field's maxSize (10 MB
\* when the field sets none) makes no storage write and no blob put.
C4_OversizedNoWrites ==
    \A p \in Procs :
        (req[p].method = "POST" /\ req[p].oversized)
            => (req[p].writes = 0 /\ req[p].puts = {})

\* C9: a duplicate-key error of the storage engine is answered with 409
\* naming the field, in create, replace and partial update.
C9_DuplicateIs409 ==
    \A p \in Procs :
        (Finished(p) /\ IsMutation(p) /\ req[p].err.code = 11000)
            => (req[p].resp.status = 409 /\ req[p].resp.field = req[p].err.keyPattern)

\* C10: a validation failure of the storage engine is answered with 400,
\* success false and one {field, message} entry per offending field, and the
\* failing call and the rest of that invocation leave the collection as it was.
C10_Response ==
    \A p \in Procs :
        (Finished(p) /\ IsMutation(p) /\ req[p].err.name = "ValidationError")
            => LET d == req[p].resp.details
                   e == req[p].err.errors
               IN  /\ req[p].resp.status = 400
                   /\ ~req[p].resp.success
                   /\ Len(d) = Cardinality({e[i].path : i \in 1..Len(e)})
                   /\ \A i \in 1..Len(e) :
                        Cardinality({j \in 1..Len(d) : d[j].field = e[i].path}) = 1
C10_StoreUnchanged ==
    \A p \in Procs :
        (req'[p].err.name = "ValidationError" /\ req'[p] # req[p]) => docs' = docs
C10_ValidationFailure == [](C10_Response) /\ [][C10_StoreUnchanged]_vars

\* A partial update refused for two offending fields.
C10_Witness ==
    \E p \in Procs :
        /\ Finished(p) /\ req[p].method = "PATCH"
        /\ req[p].err.name = "ValidationError"
        /\ Len(req[p].resp.details) = 2

\* The field a query key filters on: the key itself, or the part before an
\* operator suffix.
FieldOf(key) == IF operatorMatch(key) THEN Front(key) ELSE key
Compiled == lreq.pc \in {"find", "done"} /\ ~lreq.threw

\* C5: a query key whose field is not in filterBy leaves no clause on that
\* field in the compiled query, also when filterBy is empty.
C5_NonFilterableDropped ==
    Compiled =>
        \A i \in 1..Len(lreq.filters) :
            FieldOf(lreq.filters[i][1]) \notin filterBy
                => FieldOf(lreq.filters[i][1]) \notin DOMAIN lreq.query

\* C6: with an empty filterBy every query key that is not an internal
\* parameter is accepted: its field has a clause in the compiled query.
C6_EmptyFilterByAcceptsAll ==
    (Compiled /\ filterBy = {}) =>
        \A i \in 1..Len(lreq.filters) :
            ~startsWithUnderscore(lreq.filters[i][1])
                => FieldOf(lreq.filters[i][1]) \in DOMAIN lreq.query

\* C7: whatever the page and limit texts, the limit handed to find and
\* reported is an integer in 1..100, namely min(100, max(1, limit)) when the
\* text is a number, the page is an integer >= 1, namely max(1, page), and
\* skip is (page - 1) * limit.
C7_PagingClamped ==
    Compiled =>
        /\ ~lreq.limitNum.nan /\ lreq.limitNum.n \in 1..100
        /\ ~lreq.pageNum.nan /\ lreq.pageNum.n >= 1
        /\ ~lreq.skip.nan /\ lreq.skip.n = (lreq.pageNum.n - 1) * lreq.limitNum.n
        /\ ~Number(LimitText(lreq.limit)).nan =>
              lreq.limitNum.n = Min(100, Max(1, Number(LimitText(lreq.limit)).n))
        /\ ~Number(PageText(lreq.page)).nan =>
              lreq.pageNum.n = Max(1, Number(PageText(lreq.page)).n)
        /\ (lreq.pc = "done" /\ lreq.resp.success) =>
              /\ lreq.resp.pagination.limit = lreq.limitNum
              /\ lreq.resp.pagination.page = lreq.pageNum

\* C8: in a successful list response totalPages is ceil(total / limit),
\* hasPrev is page > 1, hasNext is page < totalPages, which is page * limit <
\* total; 12 documents with page=2 and limit=5 give total 12, page 2, limit 5,
\* totalPages 3, hasNext and hasPrev true and the documents ranked 6 to 10.
C8_Pagination ==
    (lreq.pc = "done" /\ lreq.resp.success) =>
        LET pg == lreq.resp.pagination
            data == lreq.resp.data
        IN  /\ IF pg.limit.nan THEN pg.totalPages.nan
               ELSE /\ ~pg.totalPages.nan
                    /\ (pg.totalPages.n - 1) * pg.limit.n < pg.total
                    /\ pg.total <= pg.totalPages.n * pg.limit.n
            /\ pg.hasPrev <=> (~pg.page.nan /\ pg.page.n > 1)
            /\ pg.hasNext <=> (~pg.page.nan /\ ~pg.totalPages.nan /\ pg.page.n < pg.totalPages.n)
            /\ pg.hasNext <=> (~pg.page.nan /\ ~pg.limit.nan /\ pg.page.n * pg.limit.n < pg.total)
            /\ (Len(collection) = 12 /\ lreq.page = <<"2">> /\ lreq.limit = <<"5">>) =>
                  /\ pg = [total |-> 12, page |-> Num(2), limit |-> Num(5),
                           totalPages |-> Num(3), hasNext |-> TRUE, hasPrev |-> TRUE]
                  /\ [i \in 1..Len(data) |-> data[i].rank] = <<6, 7, 8, 9, 10>>

\* The second page of five out of twelve documents.
C8_Witness ==
    /\ lreq.pc = "done" /\ lreq.resp.success
    /\ Len(collection) = 12 /\ lreq.page = <<"2">> /\ lreq.limit = <<"5">>
    /\ Len(lreq.resp.data) = 5

\* C11: a create, replace or partial update with an empty body and no
\* uploaded file is answered with 400 at once: it makes no storage read or
\* write and no blob-store put or delete.
C11_EmptyRejected ==
    \A p \in Procs :
        (IsMutation(p) /\ req[p].emptyRequest) =>
            /\ req[p].pc = "done"
            /\ req[p].resp = EmptyBodyResp /\ req[p].resp.status = 400
            /\ req[p].reads = 0 /\ req[p].writes = 0
            /\ req[p].puts = {} /\ req[p].dels = {}

\* An empty partial update of an existing document, refused.
C11_Witness ==
    \E p \in Procs :
        /\ req[p].method = "PATCH" /\ req[p].emptyRequest /\ Finished(p)
        /\ Live(req[p].id)

\* C12: while the storage engine answers, a DELETE of a well-formed
\* identifier that has no document ends in 404, leaves the collection and
\* the blob store as they were and issues no blob delete; this is so for an
\* identifier whose document an earlier DELETE removed.
C12_Step ==
    \A p \in Procs :
        (/\ req[p].pc = "delete" /\ req'[p] # req[p]
         /\ ~IsMalformed(req[p].id) /\ ~Live(req[p].id)
         /\ req'[p].err # OtherErr)
            => /\ req'[p].pc = "done"
               /\ req'[p].resp.status = 404 /\ ~req'[p].resp.success
               /\ docs' = docs /\ blobs' = blobs
               /\ req'[p].dels = {}
C12_DeleteMissing ==
    /\ [][C12_Step]_vars
    /\ [](\A d \in deleted : ~Live(d))

\* A second DELETE of an identifier a first DELETE removed, answered 404.
C12_Witness ==
    \E p \in Procs :
        /\ req[p].method = "DELETE" /\ Finished(p)
        /\ req[p].id \in deleted
        /\ req[p].resp.status = 404

\* C13: a create, replace or partial update in which an uploaded file breaks
\* the size or the type rule of its field is answered with 400 and a details
\* list holding one message for every rule any file field sees broken.
C13_AllViolationsListed ==
    \A p \in Procs :
        (IsMutation(p) /\ \E v \in req[p].violated : v[2] \in {"size", "type"}) =>
            LET d == req[p].resp.details IN
            /\ req[p].pc = "done"
            /\ req[p].resp.status = 400
            /\ {<<d[i].field, d[i].rule>> : i \in 1..Len(d)} = req[p].violated
            /\ Len(d) = Cardinality(req[p].violated)

DistinctDone == lreq.pc = "done" /\ lreq.field # <<>>
GradesOf(values) == [i \in 1..Len(values) |-> values[i].s]

\* C14 as stated: a distinct-values request for a field outside filterBy is
\* answered with 400 naming the allowed fields and makes no storage call.
C14_Original ==
    (DistinctDone /\ lreq.field \notin filterBy) =>
        /\ lreq.resp.status = 400 /\ lreq.resp.allowed = filterBy
        /\ lreq.distinctCalls = 0

\* C14, amended: Model.distinct is called only for a field in filterBy; where
\* the route is mounted (TypeScript build, filterBy not empty) any other field
\* is answered with 400 naming filterBy, and where it is not mounted every
\* request is a 404 of notFoundHandler, both without a storage call; on
\* success the values are the field's values each once and count is their
\* number (grades B, A, B, C give A, B, C and 3).
C14_Distinct ==
    /\ lreq.distinctCalls > 0 => lreq.field \in filterBy
    /\ DistinctDone =>
        /\ (FiltersRouteMounted /\ lreq.field \notin filterBy) =>
              /\ lreq.resp.status = 400 /\ lreq.resp.allowed = filterBy
              /\ lreq.distinctCalls = 0
        /\ ~FiltersRouteMounted =>
              /\ lreq.resp.status = 404 /\ lreq.resp.via = "notFoundHandler"
              /\ lreq.distinctCalls = 0
        /\ lreq.resp.success =>
              /\ lreq.resp.count = Len(lreq.resp.data)
              /\ Range(lreq.resp.data) =
                    {DocVal(collection[i], lreq.field) :
                        i \in {j \in 1..Len(collection) : DocHas(lreq.field)}}
              /\ Cardinality(Range(lreq.resp.data)) = Len(lreq.resp.data)
              /\ (/\ lreq.field = <<"grade">>
                  /\ [i \in 1..Len(collection) |-> collection[i].grade]
                        = <<StrV(<<"B">>), StrV(<<"A">>), StrV(<<"B">>), StrV(<<"C">>)>>)
                 => (GradesOf(lreq.resp.data) = <<<<"A">>, <<"B">>, <<"C">>>> /\ lreq.resp.count = 3)

\* The grades B, A, B, C listed as A, B, C with count 3.
C14_Witness ==
    /\ DistinctDone /\ lreq.resp.success /\ lreq.field = <<"grade">>
    /\ [i \in 1..Len(collection) |-> collection[i].grade]
          = <<StrV(<<"B">>), StrV(<<"A">>), StrV(<<"B">>), StrV(<<"C">>)>>
    /\ lreq.resp.count = 3

\* C15: a list request with a search term (not blank) on a resource with
\* searchBy fields returns, in order, and counts exactly the documents that
\* satisfy the compiled filters and hold the term, letter case aside, in
\* one of the searchBy fields.
Searched(d) ==
    /\ Matches(d, lreq.query, Absent)
    /\ \E f \in searchBy : DocHas(f) /\ ContainsText(DocVal(d, f), trim(lreq.search))
C15_SearchContains ==
    (/\ lreq.pc = "done" /\ lreq.resp.success
     /\ lreq.search # Absent /\ trim(lreq.search) # <<>> /\ searchBy # {})
        => /\ lreq.resp.data = SelectSeq(collection, Searched)
           /\ lreq.resp.pagination.total = Len(SelectSeq(collection, Searched))

\* The configurations the sentence calls bad: no connection string, a
\* missing or empty resource list, or a resource without a name or without
\* a schema object, at any position.
BadResource(resource) == resource.name = "" \/ resource.schema \in {"absent", "text"}
BadConfig(config) ==
    \/ config.mongoURI = ""
    \/ ~config.isArray
    \/ config.resources = <<>>
    \/ \E i \in 1..Len(config.resources) : BadResource(config.resources[i])

\* C16: with a bad configuration rapidAPI never reaches app.listen and the
\* server never listens; once the call has ended it has ended in an error.
C16_BadConfigFails ==
    BadConfig(boot.config) =>
        /\ boot.pc \in {"idle", "connecting", "rejected"}
        /\ ~boot.listening
        /\ boot.pc = "rejected" => boot.error # ""
\* A list whose only bad resource is the last one: the earlier ones were
\* registered after the connection was made, and the call was rejected.
C16_Witness ==
    /\ boot.pc = "rejected"
    /\ boot.connected
    /\ LET resources == boot.config.resources
       IN  /\ Len(resources) >= 2
           /\ BadResource(resources[Len(resources)])
           /\ \A i \in 1..(Len(resources) - 1) : ~BadResource(resources[i])
           /\ Len(boot.registered) = Len(resources) - 1

\* The request has gone through the filter loop, to its end or to an error.
Translated == lreq.pc \in {"find", "done"} /\ lreq.filters # <<>>
\* The operator keys of the request on a filterable field.
OperatorKeys ==
    {i \in 1..Len(lreq.filters) :
        operatorMatch(lreq.filters[i][1]) /\ isFilterable(Front(lreq.filters[i][1]))}

\* C17: every operator key on a filterable field ends up as a property of
\* the one compound clause of its field, whatever other keys on the same
\* field come before or after it.
C17_OperatorsMerged ==
    Translated =>
        \A i \in OperatorKeys :
            LET field == Front(lreq.filters[i][1])
                operator == Last(lreq.filters[i][1])
            IN  /\ ~lreq.threw
                /\ field \in DOMAIN lreq.query
                /\ lreq.query[field].kind = "obj"
                /\ operator \in DOMAIN lreq.query[field].obj

\* C18: the filter loop never raises an error.
C18_CompileNeverThrows == Translated => ~lreq.threw

\* The raw string is a numeric literal: it is not empty or blank and it
\* reads as a number.
NumericLiteral(strValue) == trim(strValue) # <<>> /\ ~Number(strValue).nan
Expected(strValue) ==
    IF NumericLiteral(strValue) THEN NumV(Number(strValue).n) ELSE StrV(strValue)
\* The keys of the request that are alone on their field.
LoneKeys ==
    {i \in 1..Len(lreq.filters) :
        /\ isFilterable(FieldOf(lreq.filters[i][1]))
        /\ ~startsWithUnderscore(lreq.filters[i][1])
        /\ \A j \in 1..Len(lreq.filters) :
              j # i => FieldOf(lreq.filters[j][1]) # FieldOf(lreq.filters[i][1])}

\* C19: the value of a compiled clause is a number exactly when the raw
\* string is a numeric literal, and the unchanged text otherwise; the empty
\* string stays text.
C19_CoercionIsSyntactic ==
    Compiled =>
        \A i \in LoneKeys :
            LET key == lreq.filters[i][1]
                value == lreq.filters[i][2]
                field == FieldOf(key)
            IN  /\ field \in DOMAIN lreq.query
                /\ IF operatorMatch(key)
                   THEN /\ lreq.query[field].kind = "obj"
                        /\ Last(key) \in DOMAIN lreq.query[field].obj
                        /\ lreq.query[field].obj[Last(key)] = Expected(value)
                   ELSE IsRegexForm(value) \/ lreq.query[field] = QPrim(Expected(value))

\* A replace or partial update that uploaded files and whose storage update
\* found no document, after its response.
UpdateMissed(p) ==
    /\ req[p].method \in {"PUT", "PATCH"}
    /\ req[p].err = NotFoundMark
    /\ req[p].puts # {}
    /\ req[p].resp # NoResp

\* C20: when a replace or partial update uploaded files and the storage
\* update reports no document, a blob delete is issued for exactly the URLs
\* this request uploaded, none of the blobs stored before, and the response
\* is 404.
C20_UpdateRollback ==
    \A p \in Procs :
        UpdateMissed(p) =>
            /\ req[p].dels = req[p].puts
            /\ req[p].dels = Range(req[p].uploadedUrls)
            /\ req[p].dels \cap req[p].old = {}
            /\ req[p].resp.status = 404
\* A partial update of an identifier without a document that uploaded a file.
C20_Witness ==
    \E p \in Procs :
        /\ UpdateMissed(p) /\ Finished(p)
        /\ req[p].method = "PATCH"
        /\ req[p].dels # {}

\* The file fields of the request in slot p that carry no upload.
Untouched(p) == FileFieldNames \ req[p].files
Succeeded(p) == Finished(p) /\ req[p].resp.success

\* C21: a successful partial update schedules and deletes only URLs that the
\* re-uploaded file fields held before the update; the fields without an
\* upload keep their URL in the document and their blob in the store.
C21_Step ==
    \A p \in Procs :
        LET r == req[p] IN
        /\ (r.pc = "update" /\ r.method = "PATCH" /\ req'[p] # r /\ req'[p].err = NoErr) =>
              /\ r.old \subseteq {docs[r.id].files[f] : f \in r.files}
              /\ \A f \in Untouched(p) : docs'[r.id].files[f] = docs[r.id].files[f]
              /\ blobs' = blobs
        /\ (r.pc = "cleanup" /\ r.method = "PATCH" /\ req'[p] # r) =>
              /\ req'[p].dels = r.old
              /\ (blobs \ blobs') \subseteq r.old
              /\ \A f \in Untouched(p) :
                    /\ docs'[r.id].files[f] = docs[r.id].files[f]
                    /\ docs[r.id].files[f] \in blobs => docs[r.id].files[f] \in blobs'
HeldUrls(doc) == {doc.files[f] : f \in {g \in FileFieldNames : IsUrl(doc.files[g])}}

\* C22: a successful delete removes the document first, then issues a blob
\* delete for every URL the deleted document held in its file fields, and
\* only then sends the success response.
C22_Step ==
    \A p \in Procs :
        LET r == req[p] IN
        /\ (r.pc = "delete" /\ req'[p] # r /\ req'[p].err = NoErr) =>
              /\ ~(r.id \in DOMAIN docs')
              /\ blobs' = blobs /\ req'[p].dels = {}
              /\ IF HeldUrls(docs[r.id]) = {}
                 THEN req'[p].resp.success
                 ELSE /\ req'[p].resp = NoResp
                      /\ req'[p].pc = "cleanup"
                      /\ req'[p].old = HeldUrls(docs[r.id])
        /\ (r.pc = "cleanup" /\ r.method = "DELETE" /\ req'[p] # r) =>
              /\ ~Live(r.id)
              /\ r.resp = NoResp
              /\ req'[p].dels = r.old
              /\ req'[p].resp.success /\ req'[p].resp.status = 200
C22_DeleteCleanup ==
    /\ [][C22_Step]_vars
    /\ [](\A p \in Procs : (Succeeded(p) /\ req[p].method = "DELETE") => req[p].dels = req[p].old)
\* A delete of a document that held a URL in both file fields.
C22_Witness ==
    \E p \in Procs :
        /\ Succeeded(p) /\ req[p].method = "DELETE"
        /\ Cardinality(req[p].dels) = 2

\* The response of a request waiting for deleteBlobs when every delete of the
\* batch succeeds, and the batch itself.
QuietOutcome(r) ==
    IF r.pc = "cleanup" THEN OkResp(200)
    ELSE IF r.err = NotFoundMark THEN NotFoundResp
    ELSE Catch(r.method, r.err)
Batch(r) == IF r.pc = "cleanup" THEN r.old ELSE Range(r.uploadedUrls)

\* C23: whichever deletes of a rollback or cleanup batch fail, the response
\* is the one sent when they all succeed, a delete is attempted for every
\* URL of the batch, and every URL whose delete did not fail is gone.
C23_Step ==
    \A p \in Procs :
        LET r == req[p] IN
        (r.pc \in {"rollback", "cleanup"} /\ req'[p] # r) =>
            /\ req'[p].pc = "done"
            /\ req'[p].resp = QuietOutcome(r)
            /\ req'[p].dels = r.dels \cup Batch(r)
            /\ blobs' \subseteq blobs
            /\ ~req'[p].delFailed => Batch(r) \cap blobs' = {}
C23_DeleteFailureSwallowed == [][C23_Step]_vars
\* A batch of two deletes of which one failed and the other went through,
\* after a success response.
C23_Witness ==
    \E p \in Procs :
        /\ Succeeded(p) /\ req[p].delFailed
        /\ \E u, v \in req[p].dels : u \in blobs /\ v \notin blobs

\* The values come in ascending order: text by localeCompare, numbers by value.
Ascending(values) ==
    \A i \in 1..(Len(values) - 1) : compare(values[i], values[i + 1]) < 0
AllOf(values, t) == \A i \in 1..Len(values) : values[i].t = t

\* C24: the distinct values are sent in ascending order when they are all
\* text or all numbers, and in the order the storage engine returned them
\* when text and numbers are mixed.
C24_DistinctOrder ==
    (DistinctDone /\ lreq.resp.success) =>
        LET stored == distinct(lreq.field) IN
        IF AllOf(stored, "str") \/ AllOf(stored, "num")
        THEN Ascending(lreq.resp.data) /\ Range(lreq.resp.data) = Range(stored)
        ELSE lreq.resp.data = stored

\* C25: a create that uploaded files persists its document under the
\* identifier it used in the blob paths, not under a _id of the body, and
\* every file field that had an upload holds the URL the blob store
\* returned, not a text of the body.
C25_CreateUsesOwnId ==
    \A p \in Procs :
        (Succeeded(p) /\ req[p].method = "POST" /\ req[p].puts # {}) =>
            /\ req[p].pathId \in DOMAIN docs
            /\ req[p].ownValues => ClientId \notin DOMAIN docs
            /\ \A f \in req[p].files :
                  /\ docs[req[p].pathId].files[f] = req[p].uploadedUrls[f]
                  /\ docs[req[p].pathId].files[f] \in req[p].puts
\* A create whose body held its own _id and file-field texts, with one file
\* uploaded: the other file field keeps the text of the body.
C25_Witness ==
    \E p \in Procs :
        /\ Succeeded(p) /\ req[p].method = "POST" /\ req[p].ownValues
        /\ Cardinality(req[p].puts) = 1
        /\ \E f \in FileFieldNames : docs[req[p].pathId].files[f] = ClientText

ById(p) == req[p].method \in {"GET", "PUT", "PATCH", "DELETE"}

IsUpdate(p) == req[p].method \in {"PUT", "PATCH"}

\* C27: in replace and partial update the old URLs are deleted only after
\* the storage update of the request returned the updated document; a request
\* whose update failed or found no document deletes none of them.
C27_OldDeletedAfterUpdate ==
    \A p \in Procs :
        IsUpdate(p) =>
            /\ (req[p].pc = "cleanup" \/ req[p].dels \cap req[p].old # {}) =>
                  (req[p].writes = 1 /\ req[p].err = NoErr /\ Live(req[p].id))
            /\ req[p].pc \in {"findOld", "upload", "update", "rollback"} => req[p].dels = {}
            /\ (Finished(p) /\ ~req[p].resp.success) => req[p].dels \cap req[p].old = {}
\* A replace whose update failed on validation while the old document held
\* a URL: the URL was read, and its blob is still there.
C27_Witness ==
    \E p \in Procs :
        /\ IsUpdate(p) /\ Finished(p) /\ ~req[p].resp.success
        /\ req[p].writes = 1
        /\ req[p].old # {} /\ req[p].old \subseteq blobs

\* C28: a router with no file fields, or built without a blob token, never
\* puts or deletes a blob, and its create, replace, partial update and delete
\* make no storage read before their write.
C28_NoBlobCalls ==
    (fileFields = <<>> \/ ~blobToken) =>
        \A p \in Procs :
            /\ req[p].puts = {} /\ req[p].dels = {}
            /\ req[p].pc \notin {"findOld", "upload", "rollback", "cleanup"}
            /\ req[p].method \in {"POST", "PUT", "PATCH", "DELETE"} => req[p].reads = 0
\* With file fields but no token, the document that held two URLs was
\* deleted and both blobs are still in the store.
C28_Witness ==
    \E p \in Procs :
        /\ fileFields # <<>> /\ ~blobToken
        /\ Succeeded(p) /\ req[p].method = "DELETE"
        /\ docs = EmptyMap /\ blobs = {1, 2}

InFlight(p) == req[p].pc \notin {"idle", "done"}

\* C29: a request that waits for a storage or blob call has sent nothing;
\* once its calls have returned or failed it ends, and then exactly one
\* response is out, sent by the handler or by the error handler the error
\* was forwarded to.
C29_Safe ==
    \A p \in Procs :
        /\ InFlight(p) => (req[p].sent = 0 /\ req[p].resp = NoResp)
        /\ Finished(p) =>
              /\ req[p].sent = 1
              /\ req[p].resp.status # 0
              /\ req[p].resp.via \in {"handler", "errorHandler"}
Referenced(u) == \E d \in DOMAIN docs : \E f \in FileFieldNames : docs[d].files[f] = u
Orphans(r) == {u \in r.puts : u \in blobs /\ ~Referenced(u)}

\* C30: after two replace or partial-update requests that each uploaded a
\* file for the same file field of the same document have both succeeded,
\* with every blob delete going through, each blob either of them uploaded
\* is referenced by the document or is gone from the store.
C30_NoOrphanAfterRace ==
    \A a, b \in served :
        (/\ a # b
         /\ \A p \in Procs : req[p].pc = "idle"
         /\ a.id = b.id /\ a.files \cap b.files # {}
         /\ a.method \in {"PUT", "PATCH"} /\ b.method \in {"PUT", "PATCH"}
         /\ a.resp.success /\ b.resp.success
         /\ ~a.delFailed /\ ~b.delFailed)
            => (Orphans(a) = {} /\ Orphans(b) = {})

====
